---- MODULE Spec2Model ----
(***************************************************************************)
(* Model of src/main.py (VoiceChatApp): the session controller (main, run, *)
(* connect, __aexit__), the receive loop (handle_messages), the playback    *)
(* task (play_audio_async) and the capture loop (audio_streaming), as       *)
(* asyncio tasks of one event loop.  A task runs without interruption from  *)
(* one await to the next, so every action below is the code between two     *)
(* suspension points of one task.                                           *)
(***************************************************************************)
EXTENDS Integers, Sequences, FiniteSets, TLC

\* ---- bounds of the model ------------------------------------------------
\* inbound events the connection delivers in one session
MaxEvents == 3
\* frames the capture device delivers in one session
MaxFrames == 2
\* audio_config["CHUNK_SIZE"] is 1024 in the source (line 54); the model
\* scales it down so that a buffer of a few bytes is drained in several slices
CHUNK_SIZE == 2

\* ---- base64, as base64.b64encode / base64.b64decode compute it ----------
\* a byte is 0..255; an encoded character is its alphabet index 0..63, and
\* 64 stands for the padding character '='
Pad == 64

RECURSIVE B64Encode(_)
B64Encode(bs) ==
    IF Len(bs) = 0 THEN <<>>
    ELSE IF Len(bs) = 1 THEN
        << bs[1] \div 4, (bs[1] % 4) * 16, Pad, Pad >>
    ELSE IF Len(bs) = 2 THEN
        << bs[1] \div 4, (bs[1] % 4) * 16 + bs[2] \div 16, (bs[2] % 16) * 4, Pad >>
    ELSE
        << bs[1] \div 4, (bs[1] % 4) * 16 + bs[2] \div 16,
           (bs[2] % 16) * 4 + bs[3] \div 64, bs[3] % 64 >>
        \o B64Encode(SubSeq(bs, 4, Len(bs)))

\* b64decode raises binascii.Error ("Incorrect padding") unless the text is a
\* whole number of 4-character groups, padded only at the end of the last one
B64Valid(cs) ==
    /\ Len(cs) % 4 = 0
    /\ \A i \in 1..Len(cs) :
          cs[i] = Pad => /\ i >= Len(cs) - 1
                         /\ (i = Len(cs) - 1 => cs[Len(cs)] = Pad)

RECURSIVE B64Decode(_)
B64Decode(cs) ==
    IF Len(cs) < 4 THEN <<>>
    ELSE
        LET a == cs[1] * 4 + cs[2] \div 16
            b == (cs[2] % 16) * 16 + (cs[3] % Pad) \div 4
            c == (cs[3] % 4) * 64 + (cs[4] % Pad)
            group == IF cs[3] = Pad THEN << a >>
                     ELSE IF cs[4] = Pad THEN << a, b >>
                     ELSE << a, b, c >>
        IN  group \o B64Decode(SubSeq(cs, 5, Len(cs)))

\* ---- the values the environment supplies --------------------------------
\* the k-th frame stream.read returns.  The capture loop never looks into a
\* frame, so the device is given one stream of pairwise different frames, of
\* the three lengths base64 pads differently
DeviceFrame(k) ==
    IF k % 3 = 1 THEN << k >>
    ELSE IF k % 3 = 2 THEN << 200 + k, 31 >>
    ELSE << k, 128, 255 >>

\* payloads of response.audio.delta: two well-formed ones and one whose
\* base64 text is truncated
AudioDeltas == { B64Encode(<<65, 66, 67>>), B64Encode(<<68>>), <<16, 20, 5>> }

\* print("\nAI: ", end="")
TurnMarker == << 10, 65, 73, 58, 32 >>

\* ---- outbound events ----------------------------------------------------
SessionUpdateEvent == [type |-> "session.update", audio |-> <<>>]
AppendEvent(chunk) == [type |-> "input_audio_buffer.append", audio |-> B64Encode(chunk)]
CancelEvent == [type |-> "response.cancel", audio |-> <<>>]

VARIABLES
    rpc,                  \* position of main()/run(), the session controller
    ws,                   \* self.ws: "none", "open", "remote_closed", "closed"
    closeCount,           \* number of _close_audio() calls performed
    sent,                 \* events passed to ws.send, in order
    dpc,                  \* position of handle_messages
    playback_task,        \* handle_messages' local: 0 is None, else index in ptasks
    is_first_response,    \* handle_messages' local
    dresult,              \* how the receive loop ended (what it reported)
    nEvents,              \* inbound events dispatched so far
    nSpeech,              \* speech-started events dispatched so far
    printed,              \* characters printed by the receive loop
    audio_buffer,         \* self.audio_buffer
    bufPos,               \* for each buffered byte, its position in received
    should_stop_playback, \* self.should_stop_playback
    ptasks,               \* every playback task created, in creation order
    written,              \* bytes written to output_stream, in write order
    writtenPos,           \* for each written byte, its position in received
    received,             \* concatenation of the decoded audio deltas
    bargeMark,            \* Len(received) when the latest speech-started began
    writtenAtBarge,       \* Len(written) when the latest speech-started began
    atask,                \* state of the audio_streaming task
    apc,                  \* position of audio_streaming
    data,                 \* audio_streaming's local
    captured,             \* frames returned to audio_streaming, in order
    event,                \* handle_messages' local: the message parsed last
    turnFragments         \* transcript deltas received since the latest
                          \* speech-started (or since the start)

vars == << rpc, ws, closeCount, sent, dpc, playback_task, is_first_response,
           dresult, nEvents, nSpeech, printed, audio_buffer, bufPos,
           should_stop_playback, ptasks, written, writtenPos, received,
           bargeMark, writtenAtBarge, atask, apc, data, captured, event,
           turnFragments >>

ctlVars == << rpc, ws, closeCount >>
dispVars == << dpc, playback_task, is_first_response, dresult, nEvents, nSpeech,
              printed, event, turnFragments >>
playVars == << audio_buffer, bufPos, should_stop_playback, ptasks, written,
               writtenPos, received, bargeMark, writtenAtBarge >>
capVars == << atask, apc, data, captured >>

\* VoiceChatApp.__init__ and main() up to app.run()
Init ==
    /\ rpc = "connect"
    /\ ws = "none"
    /\ closeCount = 0
    /\ sent = <<>>
    /\ dpc = "none"
    /\ playback_task = 0
    /\ is_first_response = TRUE
    /\ dresult = "none"
    /\ nEvents = 0
    /\ nSpeech = 0
    /\ printed = <<>>
    /\ audio_buffer = <<>>
    /\ bufPos = <<>>
    /\ should_stop_playback = FALSE
    /\ ptasks = <<>>
    /\ written = <<>>
    /\ writtenPos = <<>>
    /\ received = <<>>
    /\ bargeMark = 0
    /\ writtenAtBarge = 0
    /\ atask = "none"
    /\ apc = "none"
    /\ data = <<>>
    /\ captured = <<>>
    /\ event = [type |-> "none", delta |-> <<>>]
    /\ turnFragments = 0

\* the payload of the k-th response.audio_transcript.delta of a turn: "Hel",
\* "lo", "Hel", ...  The receive loop only prints a fragment, so the fragments
\* of a turn are given as one stream in which neighbours differ
TranscriptText(k) == IF k % 2 = 1 THEN << 72, 101, 108 >> ELSE << 108, 111 >>

\* the messages the connection can deliver next
InboundEvents ==
    {[type |-> "response.audio_transcript.delta",
      delta |-> TranscriptText(turnFragments + 1)]}
    \cup {[type |-> "response.audio.delta", delta |-> d] : d \in AudioDeltas}
    \cup {[type |-> "input_audio_buffer.speech_started", delta |-> <<>>]}
    \cup {[type |-> "session.created", delta |-> <<>>]}

\* ---- helpers ------------------------------------------------------------
\* Task.done()
TaskDone(t) == t.state # "pending"

\* AwaitRaises as if the CancelledError of a cancelled task were swallowed
AwaitRaises_cancelSwallowed(state) == state = "failed"

\* awaiting a task re-raises its exception or CancelledError; only a task
\* whose coroutine returned lets the awaiting code continue
AwaitRaises(state) == state \in {"cancelled", "failed"}

\* ws.send raises ConnectionClosed unless the connection is open
SendOk == ws = "open"

\* the remote side closes the connection
RemoteClose ==
    /\ ws = "open"
    /\ ws' = "remote_closed"
    /\ UNCHANGED << rpc, closeCount, sent >>
    /\ UNCHANGED << dispVars, playVars, capVars >>

\* ---- session controller: main(), run(), connect(), __aexit__ ------------
\* connect(): websockets.connect either establishes the transport or raises,
\* and the exception leaves run() and main()'s async with
ConnectTransport ==
    /\ rpc = "connect"
    /\ \E established \in BOOLEAN :
          IF established
          THEN /\ ws' = "open"
               /\ rpc' = "configure"
          ELSE /\ ws' = ws
               /\ rpc' = "aexit"
    /\ UNCHANGED << closeCount, sent >>
    /\ UNCHANGED << dispVars, playVars, capVars >>

\* update_session that configures nothing: connect() goes on without a send
update_session_skipped ==
    /\ rpc = "configure"
    /\ rpc' = "start"
    /\ UNCHANGED << ws, closeCount, sent >>
    /\ UNCHANGED << dispVars, playVars, capVars >>

\* update_session(): one session.update is sent on the new connection
update_session ==
    /\ rpc = "configure"
    /\ IF SendOk
       THEN /\ sent' = Append(sent, SessionUpdateEvent)
            /\ rpc' = "start"
       ELSE /\ sent' = sent
            /\ rpc' = "aexit"
    /\ UNCHANGED << ws, closeCount >>
    /\ UNCHANGED << dispVars, playVars, capVars >>

\* run(): both tasks are created, run() awaits message_task; handle_messages
\* reaches its async for and audio_streaming hands its first read to the
\* executor
StartTasks ==
    /\ rpc = "start"
    /\ rpc' = "await_message"
    /\ dpc' = "recv"
    /\ atask' = "pending"
    /\ apc' = "reading"
    /\ UNCHANGED << ws, closeCount, sent, data, captured >>
    /\ UNCHANGED << playback_task, is_first_response, dresult, nEvents, nSpeech,
                    printed, event, turnFragments >>
    /\ UNCHANGED playVars

\* run()'s finally, entered once message_task has ended: audio_task.cancel()
\* makes a pending audio_streaming raise CancelledError at its await; a task
\* that already ended is left as it is
RunFinallyCancel ==
    /\ rpc = "await_message"
    /\ dpc = "done"
    /\ atask' = IF atask = "pending" THEN "cancelled" ELSE atask
    /\ apc' = IF atask = "pending" THEN "none" ELSE apc
    /\ rpc' = "await_audio"
    /\ UNCHANGED << ws, closeCount, sent, data, captured >>
    /\ UNCHANGED << dispVars, playVars >>

\* run(): "await audio_task" and what follows it.  The await raises what the
\* task ended with and the exception leaves the finally block; only after a
\* normal return would _close_audio() and ws.close() of run() be executed
RunAwaitAudio ==
    /\ rpc = "await_audio"
    /\ atask # "pending"
    /\ IF AwaitRaises(atask)
       THEN /\ rpc' = "aexit"
            /\ UNCHANGED << ws, closeCount >>
       ELSE /\ closeCount' = closeCount + 1
            /\ ws' = "closed"
            /\ rpc' = "aexit"
    /\ UNCHANGED sent
    /\ UNCHANGED << dispVars, playVars, capVars >>

\* __aexit__: if self.ws: await self.ws.close()
AexitCloseWs ==
    /\ rpc = "aexit"
    /\ ws' = IF ws # "none" THEN "closed" ELSE ws
    /\ rpc' = "aexit_audio"
    /\ UNCHANGED << closeCount, sent >>
    /\ UNCHANGED << dispVars, playVars, capVars >>

\* AexitCloseAudio releasing the device only if a connection was made
AexitCloseAudio_onlyConnected ==
    /\ rpc = "aexit_audio"
    /\ closeCount' = IF ws = "none" THEN closeCount ELSE closeCount + 1
    /\ rpc' = "ended"
    /\ UNCHANGED << ws, sent >>
    /\ UNCHANGED << dispVars, playVars, capVars >>

\* __aexit__: self._close_audio()
AexitCloseAudio ==
    /\ rpc = "aexit_audio"
    /\ closeCount' = closeCount + 1
    /\ rpc' = "ended"
    /\ UNCHANGED << ws, sent >>
    /\ UNCHANGED << dispVars, playVars, capVars >>

\* asyncio.run(main()): once main() has ended the event loop cancels every
\* task that is still pending, then closes
LoopTeardown ==
    /\ rpc = "ended"
    /\ rpc' = "exited"
    /\ ptasks' = [i \in 1..Len(ptasks) |->
                    IF ptasks[i].state = "pending"
                    THEN [ptasks[i] EXCEPT !.state = "cancelled"]
                    ELSE ptasks[i]]
    /\ UNCHANGED << ws, closeCount, sent >>
    /\ UNCHANGED << audio_buffer, bufPos, should_stop_playback, written,
                    writtenPos, received, bargeMark, writtenAtBarge >>
    /\ UNCHANGED << dispVars, capVars >>

\* ---- playback task: play_audio_async ------------------------------------
\* Chunk taking the whole buffer instead of one slice
Chunk_wholeBuffer(q) == q

\* the first chunk_size bytes: bytes(list(self.audio_buffer)[:chunk_size])
Chunk(q) == SubSeq(q, 1, IF Len(q) < CHUNK_SIZE THEN Len(q) ELSE CHUNK_SIZE)
\* AfterChunk with the slice bound off by one: one byte more is removed than
\* was written
AfterChunk_offByOne(q) == SubSeq(q, CHUNK_SIZE + 2, Len(q))

\* what stays: deque(list(self.audio_buffer)[chunk_size:])
AfterChunk(q) == SubSeq(q, CHUNK_SIZE + 1, Len(q))

\* PlayerStep without the check of the stop signal at the top of the loop
PlayerStep_ignoresStop(t) ==
    /\ ptasks[t].state = "pending"
    /\ ptasks[t].pc = "top"
    /\ IF Len(audio_buffer) > 0
       THEN \E writeOk \in BOOLEAN :
               IF writeOk
               THEN /\ written' = written \o Chunk(audio_buffer)
                    /\ writtenPos' = writtenPos \o Chunk(bufPos)
                    /\ audio_buffer' = AfterChunk(audio_buffer)
                    /\ bufPos' = AfterChunk(bufPos)
                    /\ ptasks' = ptasks
               ELSE /\ ptasks' = [ptasks EXCEPT ![t].state = "failed"]
                    /\ UNCHANGED << audio_buffer, bufPos, written, writtenPos >>
       ELSE /\ ptasks' = [ptasks EXCEPT ![t].pc = "sleep"]
            /\ UNCHANGED << audio_buffer, bufPos, written, writtenPos >>
    /\ UNCHANGED << should_stop_playback, received, bargeMark, writtenAtBarge >>
    /\ UNCHANGED << ctlVars, sent, dispVars, capVars >>

\* one iteration of the loop, from the stop check to the next await.  Task t
\* is suspended at its creation or in sleep(0).  output_stream.write either
\* returns or raises, and an exception ends the task before the slice is
\* removed
PlayerStep(t) ==
    /\ ptasks[t].state = "pending"
    /\ ptasks[t].pc = "top"
    /\ IF should_stop_playback
       THEN /\ ptasks' = [ptasks EXCEPT ![t].state = "finished"]
            /\ UNCHANGED << audio_buffer, bufPos, written, writtenPos >>
       ELSE IF Len(audio_buffer) > 0
       THEN \E writeOk \in BOOLEAN :
               IF writeOk
               THEN /\ written' = written \o Chunk(audio_buffer)
                    /\ writtenPos' = writtenPos \o Chunk(bufPos)
                    /\ audio_buffer' = AfterChunk(audio_buffer)
                    /\ bufPos' = AfterChunk(bufPos)
                    /\ ptasks' = ptasks
               ELSE /\ ptasks' = [ptasks EXCEPT ![t].state = "failed"]
                    /\ UNCHANGED << audio_buffer, bufPos, written, writtenPos >>
       ELSE /\ ptasks' = [ptasks EXCEPT ![t].pc = "sleep"]
            /\ UNCHANGED << audio_buffer, bufPos, written, writtenPos >>
    /\ UNCHANGED << should_stop_playback, received, bargeMark, writtenAtBarge >>
    /\ UNCHANGED << ctlVars, sent, dispVars, capVars >>

\* await asyncio.sleep(0.01) returns; the task goes on to sleep(0)
PlayerWake(t) ==
    /\ ptasks[t].state = "pending"
    /\ ptasks[t].pc = "sleep"
    /\ ptasks' = [ptasks EXCEPT ![t].pc = "top"]
    /\ UNCHANGED << audio_buffer, bufPos, should_stop_playback, written,
                    writtenPos, received, bargeMark, writtenAtBarge >>
    /\ UNCHANGED << ctlVars, sent, dispVars, capVars >>

\* ---- receive loop: handle_messages --------------------------------------
\* NoActivePlayback answering that no task is active whatever the task does
NoActivePlayback_always == TRUE

\* playback_task is None or playback_task.done()
NoActivePlayback == playback_task = 0 \/ TaskDone(ptasks[playback_task])

\* an exception or the end of the stream leaves the loop; what is reported
LoopEnds(how) ==
    /\ dpc' = "done"
    /\ dresult' = how

\* OnTranscriptDelta leaving the first-fragment flag as it was
OnTranscriptDelta_keepsFlag(e) ==
    /\ printed' = printed \o (IF is_first_response THEN TurnMarker ELSE <<>>) \o e.delta
    /\ is_first_response' = is_first_response
    /\ UNCHANGED << dpc, dresult, playback_task, nSpeech, sent >>
    /\ UNCHANGED playVars

\* response.audio_transcript.delta
OnTranscriptDelta(e) ==
    /\ printed' = printed \o (IF is_first_response THEN TurnMarker ELSE <<>>) \o e.delta
    /\ is_first_response' = FALSE
    /\ UNCHANGED << dpc, dresult, playback_task, nSpeech, sent >>
    /\ UNCHANGED playVars

\* OnAudioDelta that drops a payload it cannot decode and goes on
OnAudioDelta_skipsBad(e) ==
    IF ~B64Valid(e.delta)
    THEN /\ UNCHANGED << dpc, dresult, playback_task, is_first_response, nSpeech,
                         printed, sent >>
         /\ UNCHANGED playVars
    ELSE LET audio_chunk == B64Decode(e.delta)
         IN  /\ audio_buffer' = audio_buffer \o audio_chunk
             /\ bufPos' = bufPos \o [i \in 1..Len(audio_chunk) |-> Len(received) + i]
             /\ received' = received \o audio_chunk
             /\ IF NoActivePlayback
                THEN /\ should_stop_playback' = FALSE
                     /\ ptasks' = Append(ptasks, [state |-> "pending", pc |-> "top"])
                     /\ playback_task' = Len(ptasks) + 1
                ELSE UNCHANGED << should_stop_playback, ptasks, playback_task >>
             /\ UNCHANGED << written, writtenPos, bargeMark, writtenAtBarge >>
             /\ UNCHANGED << dpc, dresult, is_first_response, nSpeech, printed, sent >>

\* response.audio.delta
OnAudioDelta(e) ==
    IF ~B64Valid(e.delta)
    THEN /\ LoopEnds("binascii.Error")
         /\ UNCHANGED << playback_task, is_first_response, nSpeech, printed, sent >>
         /\ UNCHANGED playVars
    ELSE LET audio_chunk == B64Decode(e.delta)
         IN  /\ audio_buffer' = audio_buffer \o audio_chunk
             /\ bufPos' = bufPos \o [i \in 1..Len(audio_chunk) |-> Len(received) + i]
             /\ received' = received \o audio_chunk
             /\ IF NoActivePlayback
                THEN /\ should_stop_playback' = FALSE
                     /\ ptasks' = Append(ptasks, [state |-> "pending", pc |-> "top"])
                     /\ playback_task' = Len(ptasks) + 1
                ELSE UNCHANGED << should_stop_playback, ptasks, playback_task >>
             /\ UNCHANGED << written, writtenPos, bargeMark, writtenAtBarge >>
             /\ UNCHANGED << dpc, dresult, is_first_response, nSpeech, printed, sent >>

\* the second self.audio_buffer.clear() and cancel_response()
FinishBargeIn ==
    /\ audio_buffer' = <<>>
    /\ bufPos' = <<>>
    /\ IF SendOk
       THEN /\ sent' = Append(sent, CancelEvent)
            /\ dpc' = "recv"
            /\ dresult' = dresult
       ELSE /\ sent' = sent
            /\ LoopEnds("ConnectionClosed")

\* OnSpeechStarted without the clear that precedes the wait
OnSpeechStarted_noFirstClear ==
    /\ is_first_response' = TRUE
    /\ should_stop_playback' = TRUE
    /\ nSpeech' = nSpeech + 1
    /\ bargeMark' = Len(received)
    /\ writtenAtBarge' = Len(written)
    /\ IF ~NoActivePlayback
       THEN /\ dpc' = "waiting"
            /\ UNCHANGED << audio_buffer, bufPos, dresult, sent >>
       ELSE FinishBargeIn
    /\ UNCHANGED << playback_task, printed, ptasks, written, writtenPos, received >>

\* input_audio_buffer.speech_started, up to the wait for the playback task
OnSpeechStarted ==
    /\ is_first_response' = TRUE
    /\ should_stop_playback' = TRUE
    /\ nSpeech' = nSpeech + 1
    /\ bargeMark' = Len(received)
    /\ writtenAtBarge' = Len(written)
    /\ IF ~NoActivePlayback
       THEN /\ audio_buffer' = <<>>
            /\ bufPos' = <<>>
            /\ dpc' = "waiting"
            /\ UNCHANGED << dresult, sent >>
       ELSE FinishBargeIn
    /\ UNCHANGED << playback_task, printed, ptasks, written, writtenPos, received >>

\* OnOtherEvent treating an unrecognised event as the end of a turn
OnOtherEvent_resetsTurn ==
    /\ is_first_response' = TRUE
    /\ UNCHANGED << dpc, dresult, playback_task, nSpeech, printed, sent >>
    /\ UNCHANGED playVars

\* an event of any other type
OnOtherEvent ==
    /\ UNCHANGED << dpc, dresult, playback_task, is_first_response, nSpeech, printed, sent >>
    /\ UNCHANGED playVars

\* one message of "async for message in self.ws" and its handling
DispatchEvent ==
    /\ dpc = "recv"
    /\ ws = "open"
    /\ nEvents < MaxEvents
    /\ nEvents' = nEvents + 1
    /\ \E e \in InboundEvents :
          /\ event' = e
          /\ turnFragments' =
                IF e.type = "response.audio_transcript.delta" THEN turnFragments + 1
                ELSE IF e.type = "input_audio_buffer.speech_started" THEN 0
                ELSE turnFragments
          /\ IF e.type = "response.audio_transcript.delta" THEN OnTranscriptDelta(e)
             ELSE IF e.type = "response.audio.delta" THEN OnAudioDelta(e)
             ELSE IF e.type = "input_audio_buffer.speech_started" THEN OnSpeechStarted
             ELSE OnOtherEvent
    /\ UNCHANGED << ctlVars, capVars >>

\* the connection is closed: the async for ends or raises ConnectionClosed
DispatchClosed ==
    /\ dpc = "recv"
    /\ ws # "open"
    /\ LoopEnds("ConnectionClosed")
    /\ UNCHANGED << playback_task, is_first_response, nEvents, nSpeech, printed,
                    event, turnFragments >>
    /\ UNCHANGED << ctlVars, sent, playVars, capVars >>

\* wait_for returns because the playback task has ended
DispatchAfterWait ==
    /\ dpc = "waiting"
    /\ TaskDone(ptasks[playback_task])
    /\ IF AwaitRaises(ptasks[playback_task].state)
       THEN /\ LoopEnds("Exception")
            /\ UNCHANGED << audio_buffer, bufPos, sent >>
       ELSE FinishBargeIn
    /\ UNCHANGED << playback_task, is_first_response, nEvents, nSpeech, printed,
                    event, turnFragments >>
    /\ UNCHANGED << should_stop_playback, ptasks, written, writtenPos, received,
                    bargeMark, writtenAtBarge >>
    /\ UNCHANGED << ctlVars, capVars >>

\* a wait without a deadline ("await playback_task"): no timeout ever fires
WaitTimeout_never ==
    /\ FALSE
    /\ UNCHANGED vars

\* wait_for's timeout expires while the playback task is still pending: the
\* task is cancelled and TimeoutError is raised in handle_messages, where
\* "except Exception" catches it
WaitTimeout ==
    /\ dpc = "waiting"
    /\ ~TaskDone(ptasks[playback_task])
    /\ ptasks' = [ptasks EXCEPT ![playback_task].state = "cancelled"]
    /\ LoopEnds("TimeoutError")
    /\ UNCHANGED << playback_task, is_first_response, nEvents, nSpeech, printed,
                    event, turnFragments >>
    /\ UNCHANGED << audio_buffer, bufPos, should_stop_playback, written,
                    writtenPos, received, bargeMark, writtenAtBarge >>
    /\ UNCHANGED << ctlVars, sent, capVars >>

\* ---- capture loop: audio_streaming --------------------------------------
\* stream.read returns a frame to the waiting task, or raises
AudioRead ==
    /\ atask = "pending"
    /\ apc = "reading"
    /\ Len(captured) < MaxFrames
    /\ \E readOk \in BOOLEAN :
          IF readOk
          THEN LET frame == DeviceFrame(Len(captured) + 1)
               IN  /\ data' = frame
                   /\ captured' = Append(captured, frame)
                   /\ apc' = "send"
                   /\ atask' = atask
          ELSE /\ atask' = "failed"
               /\ apc' = "none"
               /\ UNCHANGED << data, captured >>
    /\ UNCHANGED << ctlVars, sent, dispVars, playVars >>

\* AudioSend that does not move on after the send: the frame is sent again
AudioSend_resend ==
    /\ atask = "pending"
    /\ apc = "send"
    /\ IF SendOk
       THEN /\ sent' = Append(sent, AppendEvent(data))
            /\ apc' = apc
            /\ atask' = atask
       ELSE /\ sent' = sent
            /\ apc' = "none"
            /\ atask' = "failed"
    /\ UNCHANGED << data, captured >>
    /\ UNCHANGED << ctlVars, dispVars, playVars >>

\* _stream_audio(data): one input_audio_buffer.append, then sleep(0)
AudioSend ==
    /\ atask = "pending"
    /\ apc = "send"
    /\ IF SendOk
       THEN /\ sent' = Append(sent, AppendEvent(data))
            /\ apc' = "yield"
            /\ atask' = atask
       ELSE /\ sent' = sent
            /\ apc' = "none"
            /\ atask' = "failed"
    /\ UNCHANGED << data, captured >>
    /\ UNCHANGED << ctlVars, dispVars, playVars >>

\* the next iteration hands the next read to the executor
AudioLoop ==
    /\ atask = "pending"
    /\ apc = "yield"
    /\ apc' = "reading"
    /\ UNCHANGED << atask, data, captured >>
    /\ UNCHANGED << ctlVars, sent, dispVars, playVars >>

\* ---- the system ---------------------------------------------------------
Next ==
    \/ ConnectTransport
    \/ update_session
    \/ StartTasks
    \/ RemoteClose
    \/ DispatchEvent
    \/ DispatchClosed
    \/ DispatchAfterWait
    \/ WaitTimeout
    \/ \E t \in 1..Len(ptasks) : PlayerStep(t)
    \/ \E t \in 1..Len(ptasks) : PlayerWake(t)
    \/ AudioRead
    \/ AudioSend
    \/ AudioLoop
    \/ RunFinallyCancel
    \/ RunAwaitAudio
    \/ AexitCloseWs
    \/ AexitCloseAudio
    \/ LoopTeardown

Spec == Init /\ [][Next]_vars

\* the event loop fires a due timer and resumes a task whose awaited task has
\* ended; nothing is assumed about the playback task being run
FairSpec ==
    /\ Spec
    /\ WF_vars(WaitTimeout)
    /\ WF_vars(DispatchAfterWait)

\* the steps of each task that need nothing from outside the program.  The
\* steps of one task exclude each other, so fairness to a task is fairness to
\* each of its steps
ControllerStep ==
    update_session \/ StartTasks \/ RunFinallyCancel \/ RunAwaitAudio
    \/ AexitCloseWs \/ AexitCloseAudio \/ LoopTeardown
DispatcherStep == DispatchClosed \/ DispatchAfterWait \/ WaitTimeout
PlaybackStep == \E t \in 1..Len(ptasks) : PlayerStep(t) \/ PlayerWake(t)
CaptureStep == AudioSend \/ AudioLoop

\* the event loop runs the session controller whenever it is ready: run()
\* and __aexit__ take their next step once the task they await has ended.
\* Nothing is assumed about the other tasks or about the environment
FairController ==
    /\ Spec
    /\ WF_vars(ControllerStep)

\* the event loop runs every task that is ready.  Nothing is assumed about
\* the environment: the remote side need not send a message or close the
\* connection, and the capture device need not deliver a frame
FairLoop ==
    /\ Spec
    /\ WF_vars(ControllerStep)
    /\ WF_vars(DispatcherStep)
    /\ WF_vars(PlaybackStep)
    /\ WF_vars(CaptureStep)

\* ---- properties ---------------------------------------------------------
IsAppend(e) == e.type = "input_audio_buffer.append"
IsCancel(e) == e.type = "response.cancel"
IsSessionUpdate(e) == e.type = "session.update"
Appends == SelectSeq(sent, IsAppend)
NumCancel == Len(SelectSeq(sent, IsCancel))
NumSessionUpdate == Len(SelectSeq(sent, IsSessionUpdate))

\* C1 (as stated): with no speech-started received, every appended byte is
\* written: once the process has exited, the bytes written to the playback
\* device are the concatenation of the decoded deltas.
P1_AllWritten ==
    (rpc = "exited" /\ nSpeech = 0) => written = received

\* C1 (amended): with no speech-started received, the bytes written to the
\* playback device, in write order, followed by the bytes still in the
\* PlaybackBuffer are at every moment the concatenation of the decoded deltas
\* in receipt order: each written byte is written once, at its position.
P1_OrderPreserved ==
    nSpeech = 0 =>
        /\ written \o audio_buffer = received
        /\ writtenPos \o bufPos = [i \in 1..Len(received) |-> i]

\* two deltas, "ABC" then "D", were received and drained slice by slice
P1_Witness ==
    /\ nSpeech = 0
    /\ written = << 65, 66, 67, 68 >>
    /\ B64Encode(written) = << 16, 20, 9, 3, 17, 0, Pad, Pad >>
    /\ audio_buffer = <<>>

\* C2: after the dispatcher has begun handling a speech-started event, no
\* byte appended before that event is written to the playback device, and
\* once the dispatcher is no longer waiting for the playback task the buffer
\* holds none of those bytes.
P2_BargeInFlush ==
    /\ \A i \in (writtenAtBarge + 1)..Len(writtenPos) : writtenPos[i] > bargeMark
    /\ dpc # "waiting" => \A i \in 1..Len(bufPos) : bufPos[i] > bargeMark

\* a speech-started found unplayed bytes and an active playback task, its
\* handling is complete, and audio received after it has been written
P2_Witness ==
    /\ nSpeech = 1
    /\ dpc = "recv"
    /\ bargeMark > writtenAtBarge
    /\ Len(ptasks) = 2
    /\ ptasks[1].state = "finished"
    /\ Len(written) > writtenAtBarge

\* C3: whenever the dispatcher is between two events or has ended, the
\* response.cancel events sent are as many as the speech-started events
\* received.
P3_CancelOnce ==
    dpc \in {"recv", "done"} => NumCancel = nSpeech

\* C4: the dispatcher's wait for the playback task during speech-started
\* handling always ends, whether or not the playback task is ever run.
P4_BoundedWait ==
    (dpc = "waiting") ~> (dpc # "waiting")

\* the wait was ended by the timeout, with the playback task cancelled
P4_Witness ==
    /\ dresult = "TimeoutError"
    /\ ptasks[playback_task].state = "cancelled"

\* C5: the expiry of the bounded wait is not a failure: the receive loop never
\* ends because of the timeout.
P5_TimeoutNotFailure ==
    ~(dpc = "done" /\ dresult = "TimeoutError")

\* C6: after the dispatcher loop has ended the audio device is released before
\* the connection is closed, and it is never released while the capture
\* streamer is still running.
P6_ShutdownOrder ==
    /\ (dpc = "done" /\ ws = "closed") => closeCount >= 1
    /\ closeCount >= 1 => atask # "pending"

\* C7: the audio device is never released twice, and it has been released
\* once when the session has ended.
P7_ReleaseOnce ==
    /\ closeCount <= 1
    /\ rpc \in {"ended", "exited"} => closeCount = 1

\* a session whose dispatcher ran and ended, with the capture task cancelled
\* by the shutdown, has exited
P7_Witness ==
    /\ rpc = "exited"
    /\ dpc = "done"
    /\ atask = "cancelled"
    /\ ws = "closed"
    /\ closeCount = 1

\* C8: once the audio device has been released no playback task is still
\* pending.
P8_NoOrphanPlayback ==
    closeCount >= 1 => \A t \in 1..Len(ptasks) : ptasks[t].state # "pending"

\* C9: a session.update is the first outbound event and the only one of its
\* type, and the loops of a session are started only after it was sent.
P9_Handshake ==
    /\ Len(sent) >= 1 => IsSessionUpdate(sent[1])
    /\ NumSessionUpdate <= 1
    /\ (dpc # "none" \/ atask # "none") => NumSessionUpdate = 1

\* audio was streamed and a response cancelled in a configured session
P9_Witness ==
    /\ NumSessionUpdate = 1
    /\ Len(Appends) >= 1
    /\ NumCancel >= 1

\* C10: the audio-append events sent carry, in order, the captured frames,
\* each one once; only the frame read last can still be unsent, and it is
\* sent before the next read begins.
P10_CaptureOrder ==
    /\ Len(Appends) <= Len(captured)
    /\ Len(captured) - Len(Appends) <= 1
    /\ \A i \in 1..Len(Appends) :
          /\ B64Valid(Appends[i].audio)
          /\ B64Decode(Appends[i].audio) = captured[i]
    /\ (atask = "pending" /\ apc \in {"yield", "reading"}) => Len(Appends) = Len(captured)

\* two frames were captured and sent, with a response.cancel of the
\* dispatcher between the two audio-append events
P10_Witness ==
    /\ Len(captured) = 2
    /\ Len(Appends) = 2
    /\ \E i \in 1..Len(sent) : \E j \in 1..Len(sent) : \E k \in 1..Len(sent) :
          /\ i < j
          /\ j < k
          /\ IsAppend(sent[i])
          /\ IsCancel(sent[j])
          /\ IsAppend(sent[k])

\* C11: once the capture loop has failed, the session is eventually shut
\* down, whether or not the connection is closed.
P11_CaptureFailureShutsDown ==
    (atask = "failed") ~> (rpc = "exited")

\* C12: after a write to the playback device has failed no new playback task
\* is started: a failed playback task is the last one created.
P12_WriteFailureFatal ==
    \A t \in 1..Len(ptasks) : ptasks[t].state = "failed" => t = Len(ptasks)

IsKnownType(type) ==
    type \in {"response.audio_transcript.delta", "response.audio.delta",
              "input_audio_buffer.speech_started"}

\* C13: the step that handles an event of unknown type changes nothing of the
\* PlaybackBuffer, the stop-playback signal, the playback tasks, the
\* first-fragment flag, the printed text and the outbound events, and leaves
\* the receive loop waiting for the next event.
P13_UnknownIgnored ==
    [][(nEvents' = nEvents + 1 /\ ~IsKnownType(event'.type)) =>
          /\ audio_buffer' = audio_buffer
          /\ should_stop_playback' = should_stop_playback
          /\ ptasks' = ptasks
          /\ playback_task' = playback_task
          /\ is_first_response' = is_first_response
          /\ printed' = printed
          /\ sent' = sent
          /\ dpc' = "recv"]_vars

\* an unknown event was handled in the middle of a turn, with audio queued
\* and a playback task active, and the loop is waiting for the next event
P13_Witness ==
    /\ ~IsKnownType(event.type)
    /\ nEvents = 3
    /\ dpc = "recv"
    /\ ~is_first_response
    /\ audio_buffer # <<>>
    /\ Len(ptasks) = 1

MalformedAudio(e) == e.type = "response.audio.delta" /\ ~B64Valid(e.delta)

\* C14: an audio delta that fails to decode ends the receive loop with the
\* error reported, its step appends nothing to the PlaybackBuffer, no event is
\* dispatched once the loop has ended, and the session is then shut down.
P14_MalformedEndsLoop ==
    /\ [](MalformedAudio(event) => (dpc = "done" /\ dresult = "binascii.Error"))
    /\ [][(nEvents' = nEvents + 1 /\ MalformedAudio(event')) =>
             (audio_buffer' = audio_buffer /\ received' = received)]_vars
    /\ [][dpc = "done" => (dpc' = "done" /\ nEvents' = nEvents)]_vars
    /\ MalformedAudio(event) ~> (rpc = "exited")

\* a malformed delta arrived after audio had been received, and the session
\* has been shut down
P14_Witness ==
    /\ MalformedAudio(event)
    /\ received # <<>>
    /\ dresult = "binascii.Error"
    /\ rpc = "exited"

\* ---- C15 ----------------------------------------------------------------
\* a transcript fragment is being handled in this step
TranscriptStep ==
    nEvents' = nEvents + 1 /\ event'.type = "response.audio_transcript.delta"

\* C15: the turn marker is printed exactly when the transcript fragment being
\* handled is the first since the session started or since the most recent
\* speech-started event, and it is printed before the fragment; every other
\* fragment is printed bare, in arrival order; no other step prints, and the
\* first-fragment flag is set exactly while no fragment has arrived in the
\* turn, whatever audio or unrecognised events came in between.
P15_TurnMarker ==
    /\ [](is_first_response <=> turnFragments = 0)
    /\ [][TranscriptStep =>
             printed' = printed
                        \o (IF turnFragments = 0 THEN TurnMarker ELSE <<>>)
                        \o event'.delta]_vars
    /\ [][~TranscriptStep => printed' = printed]_vars

\* "Hel" and "lo" have arrived in one turn: one marker, then "Hello"
P15_Witness ==
    /\ turnFragments = 2
    /\ printed = TurnMarker \o << 72, 101, 108 >> \o << 108, 111 >>

\* ---- C16 ----------------------------------------------------------------
\* websockets.connect raised: connect() is over and there is no transport
ConnectFailed == rpc # "connect" /\ ws = "none"

\* C16: when the transport cannot be established the failure leaves connect()
\* and run() and is not retried: nothing is ever sent, neither the capture
\* task nor the receive loop nor a playback task is started, and by the time
\* main() has ended the audio device has been released, once.
P16_ConnectFailure ==
    /\ [](ConnectFailed =>
             /\ sent = <<>>
             /\ atask = "none" /\ dpc = "none" /\ ptasks = <<>>
             /\ rpc \in {"aexit", "aexit_audio", "ended", "exited"}
             /\ closeCount = (IF rpc \in {"ended", "exited"} THEN 1 ELSE 0))
    /\ [][ConnectFailed => (ConnectFailed' /\ rpc' # rpc)]_ctlVars

\* the connection failed and the program is over with the device released
P16_Witness == ConnectFailed /\ rpc = "exited" /\ closeCount = 1

\* ---- C17 ----------------------------------------------------------------
\* the playback device takes a write in this step
WriteStep == written' # written

\* the positions of a sequence of stream positions
PosSet(q) == { q[i] : i \in 1..Len(q) }

\* C17: a write happens only on a non-empty buffer, is exactly the first
\* min(CHUNK_SIZE, length) bytes of it, and the same step removes exactly
\* those bytes from the head; any other change of the buffer is an append at
\* the tail or a barge-in clear.  So the written and the buffered positions of
\* the received stream form one strictly increasing sequence (nothing twice)
\* and every byte received after the last barge-in is either written or still
\* buffered.
P17_PlayerStep ==
    /\ [][WriteStep =>
             LET n == IF Len(audio_buffer) < CHUNK_SIZE THEN Len(audio_buffer)
                      ELSE CHUNK_SIZE
             IN /\ n > 0
                /\ written' = written \o SubSeq(audio_buffer, 1, n)
                /\ audio_buffer' = SubSeq(audio_buffer, n + 1, Len(audio_buffer))
                /\ received' = received]_vars
    /\ [][(~WriteStep /\ audio_buffer' # audio_buffer) =>
             \/ /\ Len(received') > Len(received)
                /\ audio_buffer' = audio_buffer
                      \o SubSeq(received', Len(received) + 1, Len(received'))
             \/ audio_buffer' = <<>> /\ should_stop_playback' /\ nSpeech' > 0]_vars
    /\ [](LET all == writtenPos \o bufPos
          IN /\ \A i \in 1..Len(all) : \A j \in 1..Len(all) :
                   i < j => all[i] < all[j]
             /\ \A p \in 1..Len(received) :
                   p > bargeMark => p \in PosSet(all)
             /\ \A i \in 1..Len(bufPos) : audio_buffer[i] = received[bufPos[i]])

\* a full slice and a short trailing slice were written while the dispatcher
\* went on appending: one byte of the second delta is still buffered
P17_Witness ==
    /\ received = << 65, 66, 67, 68 >>
    /\ written = << 65, 66, 67 >>
    /\ audio_buffer = << 68 >>

\* ---- C18 ----------------------------------------------------------------
\* C18: while the stop signal is raised the playback device takes no write; a
\* playback task that is still pending under a raised signal can only leave
\* its sleep, end at the top of its loop or be cancelled; and the signal is
\* lowered only by the handling of an audio delta that starts a new playback
\* task.
P18_NoWriteAfterStop ==
    /\ [][WriteStep => (~should_stop_playback /\ ~should_stop_playback')]_vars
    /\ [][should_stop_playback =>
             \A t \in 1..Len(ptasks) :
                (ptasks[t].state = "pending" /\ ptasks'[t] # ptasks[t]) =>
                   \/ ptasks[t].pc = "sleep" /\ ptasks'[t] = [ptasks[t] EXCEPT !.pc = "top"]
                   \/ ptasks'[t].state \in {"finished", "cancelled"}]_vars
    /\ [][(should_stop_playback /\ ~should_stop_playback') =>
             /\ nEvents' = nEvents + 1
             /\ event'.type = "response.audio.delta"
             /\ Len(ptasks') = Len(ptasks) + 1
             /\ playback_task' = Len(ptasks')
             /\ written' = written]_vars

\* the task had written part of the audio when the signal was raised; it saw
\* the signal and ended, and the dispatcher is still waiting for it
P18_Witness ==
    /\ should_stop_playback
    /\ dpc = "waiting"
    /\ Len(ptasks) = 1 /\ ptasks[1].state = "finished"
    /\ Len(written) > 0 /\ Len(written) < Len(received)
    /\ Len(written) = writtenAtBarge

\* ---- C19 ----------------------------------------------------------------
\* the playback tasks that have not ended
ActiveTasks(q) == { t \in 1..Len(q) : q[t].state = "pending" }

\* C19: at most one playback task is active, and it is the one the receive
\* loop holds; there is none before audio has been received; a task is
\* created only in the handling of an audio delta that finds no active task,
\* one at a time and with the stop signal clear; and audio appended while a
\* task is active finds the stop signal clear.
P19_OnePlaybackTask ==
    /\ [](/\ Cardinality(ActiveTasks(ptasks)) <= 1
          /\ ActiveTasks(ptasks) \subseteq {playback_task}
          /\ (received = <<>> => ptasks = <<>>))
    /\ [][Len(ptasks') # Len(ptasks) =>
             /\ nEvents' = nEvents + 1
             /\ event'.type = "response.audio.delta"
             /\ ActiveTasks(ptasks) = {}
             /\ Len(ptasks') = Len(ptasks) + 1
             /\ ActiveTasks(ptasks') = {Len(ptasks')}
             /\ ~should_stop_playback']_vars
    /\ [][(received' # received /\ ActiveTasks(ptasks) # {}) =>
             /\ ~should_stop_playback /\ ~should_stop_playback'
             /\ ptasks' = ptasks]_vars

\* two deltas arrived before the task ran: the second was appended under the
\* task the first one started
P19_Witness ==
    /\ nEvents = 2
    /\ received = << 65, 66, 67, 68 >>
    /\ written = <<>>
    /\ Len(ptasks) = 1 /\ ActiveTasks(ptasks) = {1}
    /\ ~should_stop_playback

\* ---- C20 ----------------------------------------------------------------
\* a speech-started event interrupted audio, and audio has been received
\* since the last one was handled
Resumed == nSpeech > 0 /\ bargeMark > 0 /\ Len(received) > bargeMark

\* all of that audio has been written, in the order it was received
ResumedAudioWritten ==
    /\ Len(written) - writtenAtBarge = Len(received) - bargeMark
    /\ SubSeq(written, writtenAtBarge + 1, Len(written))
          = SubSeq(received, bargeMark + 1, Len(received))

\* C20: playback resumes after a barge-in: audio that arrives after a
\* speech-started event has been handled is eventually written to the
\* playback device, in order, unless a further speech-started event is
\* handled (no audio is left since the last one) or the connection does not
\* stay open.
P20_PlaybackResumes ==
    Resumed ~> (ResumedAudioWritten \/ Len(received) = bargeMark \/ ws # "open")

====
